---- MODULE Spec2Model ----
(***************************************************************************)
(* State-machine model of the DrugHunter molecule extractor:               *)
(*   - get_information_from_descriptions   (drughunter_extractor.py)       *)
(*   - extract_molecules_from_pdfs         (drughunter_extractor.py)       *)
(*   - extract_bounds / main               (drughunter_extractor.py)       *)
(*   - segment_pdf                         (segmentation/segment_pdf.py)   *)
(* Strings that the code inspects character by character are sequences of  *)
(* one-character strings; Python's None is the value None.                 *)
(***************************************************************************)
EXTENDS Integers, Sequences, FiniteSets, TLC

VARIABLES
    \* get_information_from_descriptions
    d_pc, descriptions, separator, information,
    \* segment_pdf
    s_pc, pdfs, target_segment_directory, get_text, segment_list, text_list, s_error,
    \* main / extract_bounds
    m_pc, args, lower_bound, upper_bound, fetched, messages, m_error,
    \* extract_molecules_from_pdfs
    e_pc, decimer_complement, segmentation_results, e_descriptions, segments,
    extraction_results, recognition_results_molscribe, primary_returned,
    index_list, decimer_input, recognition_results_decimer, printed, exported

descVars == <<d_pc, descriptions, separator, information>>
segVars  == <<s_pc, pdfs, target_segment_directory, get_text, segment_list, text_list, s_error>>
extVars  == <<e_pc, decimer_complement, segmentation_results, e_descriptions, segments,
              extraction_results, recognition_results_molscribe, primary_returned,
              index_list, decimer_input, recognition_results_decimer, printed, exported>>
mainVars == <<m_pc, args, lower_bound, upper_bound, fetched, messages, m_error>>

None == "None"

\* ------------------------------------------------------------------------
\* Bounds of the model
MaxDescLen == 3
MaxDescs == 2
MaxPdfs == 2
MaxPages == 2
MaxSegsPerPage == 1
MaxMonthLen == 4
MaxSegs == 3

\* ------------------------------------------------------------------------
\* Python string primitives used by the code

\* all sequences over S of length at most n
SeqsUpTo(S, n) == UNION {[1..k -> S] : k \in 0..n}

NL == "\n"

\* first index at which sub occurs in s, 0 when it does not occur (str.find + 1)
Find(s, sub) ==
    LET hits == {k \in 1..(Len(s) - Len(sub) + 1) : SubSeq(s, k, k + Len(sub) - 1) = sub}
    IN  IF hits = {} THEN 0 ELSE CHOOSE k \in hits : \A h \in hits : k <= h

\* `sub in s`
Contains(s, sub) == Find(s, sub) # 0

\* s.split(sep) for a non-empty sep: cut at every non-overlapping occurrence,
\* left to right; always at least one part
RECURSIVE Split(_, _)
Split(s, sep) ==
    LET k == Find(s, sep)
    IN  IF k = 0 THEN <<s>>
        ELSE <<SubSeq(s, 1, k - 1)>> \o Split(SubSeq(s, k + Len(sep), Len(s)), sep)

\* ------------------------------------------------------------------------
\* get_information_from_descriptions, body of the loop for one description.
\* Result: [raised, proposed_name, proposed_target]

\* index of the first line that contains the separator, 0 when none does
FirstSeparatorLine(text_lines, sep) ==
    LET hits == {k \in 1..Len(text_lines) : Contains(text_lines[k], sep)}
    IN  IF hits = {} THEN 0 ELSE CHOOSE k \in hits : \A h \in hits : k <= h

\* the fallback of lines 43-47: taken when proposed_name is still ''
FallbackApplies(proposed_name) == proposed_name = <<>>

ParseDescription(description, sep) ==
    LET text_lines == Split(description, <<NL>>)
        k == FirstSeparatorLine(text_lines, sep)
        parts == IF k = 0 \/ sep = <<>> THEN <<>> ELSE Split(text_lines[k], sep)
        \* line 40: str.split('') raises ValueError; unpacking anything but
        \* two parts into (proposed_name, porposed_target) raises ValueError
        raised == k # 0 /\ (sep = <<>> \/ Len(parts) # 2)
        name0 == IF k # 0 /\ ~raised THEN parts[1] ELSE <<>>
        target0 == IF k # 0 /\ ~raised THEN parts[2] ELSE <<>>
        name1 == IF FallbackApplies(name0) /\ Len(text_lines) >= 1
                 THEN text_lines[1] ELSE name0
        target1 == IF FallbackApplies(name0) /\ Len(text_lines) >= 2
                   THEN text_lines[2] ELSE target0
    IN  [raised |-> raised,
         proposed_name |-> IF raised THEN <<>> ELSE name1,
         proposed_target |-> IF raised THEN <<>> ELSE target1]

\* the whole function: the dict it returns, or the exception it raises
GetInformationFromDescriptions(descs, sep) ==
    LET per == [i \in 1..Len(descs) |-> ParseDescription(descs[i], sep)]
    IN  IF \E i \in 1..Len(descs) : per[i].raised
        THEN [raised |-> TRUE]
        ELSE [raised |-> FALSE,
              description |-> descs,
              proposed_name |-> [i \in 1..Len(descs) |-> per[i].proposed_name],
              proposed_target |-> [i \in 1..Len(descs) |-> per[i].proposed_target]]

DescAlphabet == {"a", "|", NL}
Separators == {<<"|">>, <<>>, <<"a", "|">>}

NotCalled == [raised |-> FALSE, called |-> FALSE]

DescIdle ==
    /\ d_pc = "idle" /\ descriptions = <<>> /\ separator = <<>> /\ information = NotCalled

InitDesc ==
    /\ d_pc = "call"
    /\ descriptions \in SeqsUpTo(SeqsUpTo(DescAlphabet, MaxDescLen), MaxDescs)
    /\ separator \in Separators
    /\ information = NotCalled

CallGetInformation ==
    /\ d_pc = "call"
    /\ information' = GetInformationFromDescriptions(descriptions, separator)
    /\ d_pc' = IF information'.raised THEN "raised" ELSE "returned"
    /\ UNCHANGED <<descriptions, separator>>
    /\ UNCHANGED <<segVars, mainVars, extVars>>

\* ------------------------------------------------------------------------
\* segment_pdf (segmentation/segment_pdf.py)
\* A document is [filename, decodes, pages]: convert_from_bytes either raises
\* (decodes = FALSE) or yields the pages; pages[p] is the number of segments
\* segment_chemical_structures finds on page p.

\* lines 62-64: the (filename, page_num, image) tuples of one page
PageSegments(filename, page_num, count) ==
    [k \in 1..count |-> <<filename, page_num, <<"image", filename, page_num, k - 1>>>>]

\* lines 58-64: sub_segment_list of one decoded document, page_num from 0
RECURSIVE SubSegmentList(_, _, _)
SubSegmentList(filename, pages, page_num) ==
    IF page_num >= Len(pages) THEN <<>>
    ELSE PageSegments(filename, page_num, pages[page_num + 1])
         \o SubSegmentList(filename, pages, page_num + 1)

\* line 66: extract_text yields one text per bounding box of the page
RECURSIVE ExtractedText(_, _, _)
ExtractedText(filename, pages, page_num) ==
    IF page_num >= Len(pages) THEN <<>>
    ELSE [k \in 1..pages[page_num + 1] |-> <<"text", filename, page_num, k - 1>>]
         \o ExtractedText(filename, pages, page_num + 1)

\* line 75: `for index, (filename, segment) in enumerate(sub_segment_list)`
\* unpacks a 3-tuple into two names: ValueError on the first element
SaveRaises(dir, sub_segment_list) == dir # None /\ sub_segment_list # <<>>

\* lines 44-78: the loop over the documents
RECURSIVE SegmentLoop(_, _, _, _, _)
SegmentLoop(ps, dir, gt, segs, texts) ==
    IF ps = <<>> THEN [error |-> "", segment_list |-> segs, text_list |-> texts]
    ELSE LET doc == Head(ps) IN
         IF ~doc.decodes
         THEN SegmentLoop(Tail(ps), dir, gt, segs, texts)
         ELSE LET sub == SubSegmentList(doc.filename, doc.pages, 0)
                  texts2 == IF gt THEN texts \o ExtractedText(doc.filename, doc.pages, 0)
                            ELSE texts
              IN  IF SaveRaises(dir, sub)
                  THEN [error |-> "ValueError", segment_list |-> segs, text_list |-> texts2]
                  ELSE SegmentLoop(Tail(ps), dir, gt, segs \o sub, texts2)

\* line 81: the timing message divides by len(segment_list)
SegmentPdf(ps, dir, gt) ==
    LET r == SegmentLoop(ps, dir, gt, <<>>, <<>>)
    IN  IF r.error = "" /\ Len(r.segment_list) = 0
        THEN [r EXCEPT !.error = "ZeroDivisionError"]
        ELSE r

Filenames == {"a.pdf", "b.pdf"}
Documents ==
    [filename : Filenames, decodes : {TRUE}, pages : SeqsUpTo(0..MaxSegsPerPage, MaxPages)]
    \cup [filename : Filenames, decodes : {FALSE}, pages : {<<>>}]

SegIdle ==
    /\ s_pc = "idle" /\ pdfs = <<>> /\ target_segment_directory = None
    /\ get_text = FALSE /\ segment_list = <<>> /\ text_list = <<>> /\ s_error = ""

InitSeg ==
    /\ s_pc = "call"
    /\ pdfs \in SeqsUpTo(Documents, MaxPdfs)
    /\ target_segment_directory \in {None, "segments"}
    /\ get_text \in BOOLEAN
    /\ segment_list = <<>> /\ text_list = <<>> /\ s_error = ""

CallSegmentPdf ==
    /\ s_pc = "call"
    /\ LET r == SegmentPdf(pdfs, target_segment_directory, get_text)
       IN  /\ s_error' = r.error
           /\ s_pc' = IF r.error = "" THEN "returned" ELSE "raised"
           \* nothing is returned when the call raises
           /\ segment_list' = IF r.error = "" THEN r.segment_list ELSE <<>>
           /\ text_list' = IF r.error = "" THEN r.text_list ELSE <<>>
    /\ UNCHANGED <<pdfs, target_segment_directory, get_text>>
    /\ UNCHANGED <<descVars, mainVars, extVars>>

\* ------------------------------------------------------------------------
\* extract_bounds and main (drughunter_extractor.py)

Digits == {"0", "1", "2", "3", "4", "5", "6", "7", "8", "9"}
DigitVal(c) ==
    CASE c = "0" -> 0 [] c = "1" -> 1 [] c = "2" -> 2 [] c = "3" -> 3 [] c = "4" -> 4
      [] c = "5" -> 5 [] c = "6" -> 6 [] c = "7" -> 7 [] c = "8" -> 8 [] c = "9" -> 9

RECURSIVE DecValue(_)
DecValue(ds) ==
    IF ds = <<>> THEN 0
    ELSE 10 * DecValue(SubSeq(ds, 1, Len(ds) - 1)) + DigitVal(ds[Len(ds)])

\* int(s) on the characters of the model's alphabet: an optional '-' followed
\* by one or more digits, ValueError (ok = FALSE) otherwise
ParseInt(s) ==
    LET neg == s # <<>> /\ Head(s) = "-"
        ds == IF neg THEN Tail(s) ELSE s
        ok == ds # <<>> /\ \A i \in 1..Len(ds) : ds[i] \in Digits
    IN  [ok |-> ok, value |-> IF ok THEN (IF neg THEN -1 ELSE 1) * DecValue(ds) ELSE 0]

\* line 202 with lower_bound <= upper_bound
RangeAcceptedInclusive(lo, hi) == 1 <= lo /\ lo <= 12 /\ 1 <= hi /\ hi <= 12 /\ lo <= hi

\* lines 201-205: may a pair of bounds be returned
RangeAccepted(lo, hi) == 1 <= lo /\ lo <= 12 /\ 1 <= hi /\ hi <= 12 /\ lo < hi

\* lines 191-207: [ok, lower_bound, upper_bound]; ok = FALSE is ValueError
ExtractBounds(input_string) ==
    LET one == ParseInt(input_string)
        parts == Split(input_string, <<"-">>)
        lo == IF Len(parts) >= 1 THEN ParseInt(parts[1]) ELSE [ok |-> FALSE, value |-> 0]
        hi == IF Len(parts) >= 2 THEN ParseInt(parts[2]) ELSE [ok |-> FALSE, value |-> 0]
    IN  IF one.ok /\ one.value >= 1 /\ one.value <= 12
        THEN [ok |-> TRUE, lower_bound |-> one.value, upper_bound |-> one.value]
        ELSE IF Len(parts) = 2 /\ lo.ok /\ hi.ok /\ RangeAccepted(lo.value, hi.value)
        THEN [ok |-> TRUE, lower_bound |-> lo.value, upper_bound |-> hi.value]
        ELSE [ok |-> FALSE, lower_bound |-> 0, upper_bound |-> 0]

\* len(str(n))
RECURSIVE NatStrLen(_)
NatStrLen(n) == IF n < 10 THEN 1 ELSE 1 + NatStrLen(n \div 10)
IntStrLen(n) == IF n < 0 THEN 1 + NatStrLen(-n) ELSE NatStrLen(n)

\* line 165: one download_pdf call per month of the range
MonthUrls(target_year, lo, hi) == [k \in 1..(hi - lo + 1) |-> <<target_year, lo + k - 1>>]

\* the url branch of main is taken (line 234)
UrlBranch(a) == a.url # None /\ a.url # ""

\* main: [error, messages, lower_bound, upper_bound, fetched]
Main(a) ==
    LET quiet == [error |-> "", messages |-> <<>>, lower_bound |-> 0, upper_bound |-> 0,
                  fetched |-> <<>>]
        yearTruthy == a.year.kind = "int" /\ a.year.value # 0
        both == IF a.url # None /\ a.url # "" /\ yearTruthy
                THEN <<"Please use only one option.">> ELSE <<>>
        monthGiven == a.month.given /\ a.month.text # <<>>
        eb == ExtractBounds(a.month.text)
        lo == IF monthGiven THEN eb.lower_bound ELSE 1
        hi == IF monthGiven THEN eb.upper_bound ELSE 12
    IN  IF a.year.kind = "invalid"
        THEN [quiet EXCEPT !.error = "argparse"]
        ELSE IF UrlBranch(a)
        THEN [quiet EXCEPT !.messages = both, !.fetched = <<a.url>>]
        ELSE IF ~yearTruthy
        THEN [quiet EXCEPT !.messages = both \o <<"No year or url provided">>]
        ELSE IF IntStrLen(a.year.value) # 4
        THEN [quiet EXCEPT !.messages = both \o <<"Invalid year format.">>]
        ELSE IF a.year.value < 2020
        THEN [quiet EXCEPT !.messages = both \o <<"Molecules of the month start at 2020.">>]
        ELSE IF monthGiven /\ ~eb.ok
        THEN [quiet EXCEPT !.error = "ValueError", !.messages = both]
        ELSE [quiet EXCEPT !.messages = both, !.lower_bound = lo, !.upper_bound = hi,
                           !.fetched = MonthUrls(a.year.value, lo, hi)]

MonthAlphabet == {"0", "1", "2", "-", "x"}
YearArgs ==
    {[kind |-> "absent", value |-> 0], [kind |-> "invalid", value |-> 0]}
    \cup [kind : {"int"}, value : {0, 12, 2019, 2020, 2023, 20230, -999}]
MonthArgs ==
    {[given |-> FALSE, text |-> <<>>]}
    \cup [given : {TRUE}, text : SeqsUpTo(MonthAlphabet, MaxMonthLen)]

MainIdle ==
    /\ m_pc = "idle" /\ args = [url |-> None, year |-> [kind |-> "absent", value |-> 0],
                                month |-> [given |-> FALSE, text |-> <<>>]]
    /\ lower_bound = 0 /\ upper_bound = 0 /\ fetched = <<>> /\ messages = <<>>
    /\ m_error = ""

InitMain ==
    /\ m_pc = "call"
    /\ args \in [url : {None, "http://u"}, year : YearArgs, month : MonthArgs]
    /\ lower_bound = 0 /\ upper_bound = 0 /\ fetched = <<>> /\ messages = <<>>
    /\ m_error = ""

CallMain ==
    /\ m_pc = "call"
    /\ LET r == Main(args)
       IN  /\ m_error' = r.error
           /\ messages' = r.messages
           /\ lower_bound' = r.lower_bound
           /\ upper_bound' = r.upper_bound
           /\ fetched' = r.fetched
           /\ m_pc' = IF r.error = "" THEN "returned" ELSE "raised"
    /\ UNCHANGED args
    /\ UNCHANGED <<descVars, segVars, extVars>>

\* ------------------------------------------------------------------------
\* extract_molecules_from_pdfs (drughunter_extractor.py, lines 60-143)
\* Tables are Python dicts of equally indexed lists: functions from column
\* name to sequence.  Positions are 1-based here, 0-based in the code.
\* Validation results are the strings "True", "False" and "None".

\* dict.update
Update(d, u) == [k \in DOMAIN d \cup DOMAIN u |-> IF k \in DOMAIN u THEN u[k] ELSE d[k]]

\* list.count
Count(list, v) == Cardinality({i \in 1..Len(list) : list[i] = v})

\* truth value of a list / of a dict
TruthyList(list) == Len(list) > 0
TruthyDict(d) == DOMAIN d # {}

\* round(count / total * 100, 2), in hundredths of a percent
RoundedPercent(count, total) == (20000 * count + total) \div (2 * total)

\* the 4-tuples (source, page number, segment number, image) the segmenter
\* hands over for n segments: the first half comes from page 0 of a.pdf, the
\* other half from page 1 of b.pdf
SegmentTuple(i, k) ==
    IF i <= k THEN <<"a.pdf", 0, i - 1, <<"image", "a.pdf", i - 1>>>>
    ELSE <<"b.pdf", 1, i - k - 1, <<"image", "b.pdf", i - k - 1>>>>
SegmenterOutputs == {[i \in 1..n |-> SegmentTuple(i, (n + 1) \div 2)] : n \in 0..MaxSegs}

\* the texts the segmenter returns with them: none, or one per segment
SampleDescriptions == {<<"a", "|", "b">>, <<"a", "|", "b", "|", "c">>}
SegmenterTexts(n) ==
    {<<>>} \cup {[i \in 1..n |-> d] : d \in SampleDescriptions}

\* a recognizer's answer for one image: nothing, or a structure
Recognitions ==
    {[smiles |-> "", inchi |-> "", inchikey |-> ""],
     [smiles |-> "CCO", inchi |-> "InChI=1S/C2H6O", inchikey |-> "LFQSCWFLJHTTHZ"]}

\* recognize_segments: a dict of three lists, one entry per segment, in order
RecognizerOutputs(segs) ==
    {[key \in {"smiles", "inchi", "inchikey"} |-> [i \in 1..Len(segs) |-> r[i][key]]] :
        r \in [1..Len(segs) -> Recognitions]}

\* validate_inchikey_list: one of True, False, None per key, in order
ValidatorOutputs(keys) == [1..Len(keys) -> {"True", "False", "None"}]

\* lines 87-91
SegmentationColumns(results) ==
    [k \in {"source", "page number", "segment number"} |->
        [i \in 1..Len(results) |->
            results[i][CASE k = "source" -> 1 [] k = "page number" -> 2
                         [] k = "segment number" -> 3]]]

\* line 93
SegmentImages(results) == [i \in 1..Len(results) |-> results[i][4]]

\* lines 105-108: the messages of the primary pass
PrimaryMessages(validation) ==
    IF TruthyList(validation)
    THEN <<[kind |-> "molscribe", recognized |-> Count(validation, "True"),
            percent |-> RoundedPercent(Count(validation, "True"), Len(validation)),
            failed |-> Count(validation, "False")]>>
    ELSE <<>>

\* line 112 with the test written `if not validation_result`
IsCandidateFalsy(validation_result) == validation_result \in {"False", "None"}

\* line 112: the positions whose validation result `is False`, ascending
IsCandidate(validation_result) == validation_result = "False"

RECURSIVE IndexListFrom(_, _)
IndexListFrom(validation, i) ==
    IF i > Len(validation) THEN <<>>
    ELSE (IF IsCandidate(validation[i]) THEN <<i>> ELSE <<>>)
         \o IndexListFrom(validation, i + 1)
IndexList(validation) == IndexListFrom(validation, 1)

\* line 116 with the first len(index_list) segments passed instead
DecimerInputPrefix(segs, idx) == SubSeq(segs, 1, Len(idx))

\* line 116: [segment for index, segment in enumerate(segments) if index in index_list]
RECURSIVE DecimerInputFrom(_, _, _)
DecimerInputFrom(segs, idx, i) ==
    IF i > Len(segs) THEN <<>>
    ELSE (IF \E j \in 1..Len(idx) : idx[j] = i THEN <<segs[i]>> ELSE <<>>)
         \o DecimerInputFrom(segs, idx, i + 1)
DecimerInput(segs, idx) == DecimerInputFrom(segs, idx, 1)

\* line 127.  The two inchikey operands are the whole lists, not the entries
\* at the position: a list never equals the str '', so `list != ''` is True
\* and `list == ''` is False for every list.
ListDiffersFromStr(list, str) == TRUE
ListEqualsStr(list, str) == FALSE
DecimerIsBetter(validation_result, decimer, molscribe) ==
    \/ validation_result = "True"
    \/ (ListDiffersFromStr(decimer["inchikey"], "") /\ ListEqualsStr(molscribe["inchikey"], ""))

\* line 129 with the write going to [index] instead of [index_list[index]]
TargetPositionUnmapped(idx, index) == index

\* line 129: the position of the primary table that entry `index` is written to
TargetPosition(idx, index) == idx[index]

\* lines 128-129
CopyEntry(molscribe, decimer, idx, index) ==
    [key \in DOMAIN molscribe |->
        [molscribe[key] EXCEPT ![TargetPosition(idx, index)] = decimer[key][index]]]

\* lines 125-129
RECURSIVE Complement(_, _, _, _)
Complement(molscribe, decimer, idx, index) ==
    IF index > Len(decimer["validation"]) THEN molscribe
    ELSE Complement(
            IF DecimerIsBetter(decimer["validation"][index], decimer, molscribe)
            THEN CopyEntry(molscribe, decimer, idx, index) ELSE molscribe,
            decimer, idx, index + 1)

\* remove_duplicates: records with the same non-empty inchikey collapse to the
\* validated one, else to the first; records without inchikey all stay
Representative(table, i) ==
    LET same == {j \in 1..Len(table["inchikey"]) : table["inchikey"][j] = table["inchikey"][i]}
        valid == {j \in same : table["validation"][j] = "True"}
        pool == IF valid # {} THEN valid ELSE same
    IN  CHOOSE j \in pool : \A h \in pool : j <= h

Survives(table, i) == table["inchikey"][i] = "" \/ Representative(table, i) = i

RECURSIVE Filter(_, _, _)
Filter(list, table, i) ==
    IF i > Len(list) THEN <<>>
    ELSE (IF Survives(table, i) THEN <<list[i]>> ELSE <<>>) \o Filter(list, table, i + 1)

RemoveDuplicates(table) == [k \in DOMAIN table |-> Filter(table[k], table, 1)]

\* lines 136-138
TotalMessages(validation) ==
    IF TruthyList(validation)
    THEN <<[kind |-> "total", recognized |-> Count(validation, "True"),
            percent |-> RoundedPercent(Count(validation, "True"), Len(validation))]>>
    ELSE <<>>

NoTable == [validation |-> <<>>]
NoDict == <<>>

ExtIdle ==
    /\ e_pc = "idle" /\ decimer_complement = FALSE /\ segmentation_results = <<>>
    /\ e_descriptions = <<>> /\ segments = <<>> /\ extraction_results = NoDict
    /\ recognition_results_molscribe = NoTable /\ primary_returned = NoTable
    /\ index_list = <<>> /\ decimer_input = <<>> /\ recognition_results_decimer = NoTable
    /\ printed = <<>> /\ exported = <<>>

InitExt ==
    /\ e_pc = "start"
    /\ decimer_complement \in BOOLEAN
    /\ segmentation_results = <<>>
    /\ e_descriptions = <<>> /\ segments = <<>> /\ extraction_results = NoDict
    /\ recognition_results_molscribe = NoTable /\ primary_returned = NoTable
    /\ index_list = <<>> /\ decimer_input = <<>> /\ recognition_results_decimer = NoTable
    /\ printed = <<>> /\ exported = <<>>

\* lines 84-95
Segmentation ==
    /\ e_pc = "start"
    /\ \E results \in SegmenterOutputs : \E texts \in SegmenterTexts(Len(results)) :
        LET info == IF TruthyList(texts)
                    THEN GetInformationFromDescriptions(texts, <<"|">>)
                    ELSE [raised |-> FALSE]
        IN  /\ segmentation_results' = results
            /\ e_descriptions' = texts
            /\ segments' = SegmentImages(results)
            /\ extraction_results' =
                   IF TruthyList(texts) /\ ~info.raised
                   THEN Update(SegmentationColumns(results),
                               [k \in {"description", "proposed_name", "proposed_target"} |-> info[k]])
                   ELSE SegmentationColumns(results)
            /\ e_pc' = IF info.raised THEN "raised" ELSE "segmented"
    /\ UNCHANGED <<decimer_complement, recognition_results_molscribe, primary_returned,
                   index_list, decimer_input, recognition_results_decimer, printed, exported>>
    /\ UNCHANGED <<descVars, segVars, mainVars>>

\* lines 99-108
PrimaryPass ==
    /\ e_pc = "segmented"
    /\ \E rec \in RecognizerOutputs(segments) :
       \E validation \in ValidatorOutputs(rec["inchikey"]) :
        LET table == Update(rec, [validation |-> validation])
        IN  /\ recognition_results_molscribe' = table
            /\ primary_returned' = table
            /\ printed' = printed \o PrimaryMessages(validation)
    /\ e_pc' = "primary"
    /\ UNCHANGED <<decimer_complement, segmentation_results, e_descriptions, segments,
                   extraction_results, index_list, decimer_input,
                   recognition_results_decimer, exported>>
    /\ UNCHANGED <<descVars, segVars, mainVars>>

\* lines 110-132
ComplementPass ==
    /\ e_pc = "primary"
    /\ LET idx == IF decimer_complement
                  THEN IndexList(recognition_results_molscribe["validation"]) ELSE <<>>
           input == DecimerInput(segments, idx)
       IN  IF decimer_complement /\ TruthyList(idx)
           THEN \E rec \in RecognizerOutputs(input) :
                \E validation \in ValidatorOutputs(rec["inchikey"]) :
                 LET decimer == Update(rec, [validation |-> validation])
                     merged == Complement(recognition_results_molscribe, decimer, idx, 1)
                 IN  /\ index_list' = idx
                     /\ decimer_input' = <<input>>
                     /\ recognition_results_decimer' = decimer
                     /\ printed' = Append(printed, [kind |-> "decimer",
                                                    recognized |-> Count(validation, "True")])
                     /\ recognition_results_molscribe' = merged
                     /\ extraction_results' = Update(extraction_results, merged)
           ELSE /\ index_list' = idx
                /\ extraction_results' = Update(extraction_results, recognition_results_molscribe)
                /\ UNCHANGED <<decimer_input, recognition_results_decimer, printed,
                               recognition_results_molscribe>>
    /\ e_pc' = "reconciled"
    /\ UNCHANGED <<decimer_complement, segmentation_results, e_descriptions, segments,
                   primary_returned, exported>>
    /\ UNCHANGED <<descVars, segVars, mainVars>>

\* lines 133-138
Deduplication ==
    /\ e_pc = "reconciled"
    /\ extraction_results' = RemoveDuplicates(extraction_results)
    /\ printed' = printed \o TotalMessages(extraction_results'["validation"])
    /\ e_pc' = "deduplicated"
    /\ UNCHANGED <<decimer_complement, segmentation_results, e_descriptions, segments,
                   recognition_results_molscribe, primary_returned, index_list,
                   decimer_input, recognition_results_decimer, exported>>
    /\ UNCHANGED <<descVars, segVars, mainVars>>

\* lines 140-143
Export ==
    /\ e_pc = "deduplicated"
    /\ IF TruthyDict(extraction_results)
       THEN /\ exported' = Append(exported, extraction_results)
            /\ UNCHANGED printed
       ELSE /\ printed' = Append(printed, [kind |-> "nothing"])
            /\ UNCHANGED exported
    /\ e_pc' = "done"
    /\ UNCHANGED <<decimer_complement, segmentation_results, e_descriptions, segments,
                   extraction_results, recognition_results_molscribe, primary_returned,
                   index_list, decimer_input, recognition_results_decimer>>
    /\ UNCHANGED <<descVars, segVars, mainVars>>

\* ------------------------------------------------------------------------
\* Specifications

vars == <<descVars, segVars, mainVars, extVars>>

\* get_information_from_descriptions on every list of descriptions
InitSpecDesc == InitDesc /\ SegIdle /\ MainIdle /\ ExtIdle
NextDesc == CallGetInformation
SpecDesc == InitSpecDesc /\ [][NextDesc]_vars

\* segment_pdf on every list of documents
InitSpecSeg == DescIdle /\ InitSeg /\ MainIdle /\ ExtIdle
NextSeg == CallSegmentPdf
SpecSeg == InitSpecSeg /\ [][NextSeg]_vars

\* main on every command line
InitSpecMain == DescIdle /\ SegIdle /\ InitMain /\ ExtIdle
NextMain == CallMain
SpecMain == InitSpecMain /\ [][NextMain]_vars

\* extract_molecules_from_pdfs, stage by stage
Init == DescIdle /\ SegIdle /\ MainIdle /\ InitExt
Next == Segmentation \/ PrimaryPass \/ ComplementPass \/ Deduplication \/ Export
Spec == Init /\ [][Next]_vars

\* ------------------------------------------------------------------------
\* Properties of extract_molecules_from_pdfs (specification Spec)

ChemistryKeys == {"smiles", "inchi", "inchikey", "validation"}
AfterReconciliation == e_pc \in {"reconciled", "deduplicated", "done"}
ComplementRan == Len(decimer_input) > 0

C2_ValidatedPrimaryKept ==
    AfterReconciliation =>
        \A i \in 1..Len(primary_returned["validation"]) :
            primary_returned["validation"][i] = "True" =>
                \A key \in ChemistryKeys :
                    /\ recognition_results_molscribe[key][i] = primary_returned[key][i]
                    /\ e_pc = "reconciled" =>
                           extraction_results[key][i] = primary_returned[key][i]

\* C2 witness: a run with a validated primary record in which the complement
\* pass overwrote another record with a validated complement result.
C2_Witness ==
    /\ e_pc = "reconciled" /\ ComplementRan
    /\ \E i \in 1..Len(primary_returned["validation"]) :
           primary_returned["validation"][i] = "True"
    /\ \E j \in 1..Len(index_list) :
           /\ recognition_results_decimer["validation"][j] = "True"
           /\ recognition_results_molscribe["inchikey"][index_list[j]]
                  # primary_returned["inchikey"][index_list[j]]

C4_NullExcludedFromRates ==
    /\ \A m \in 1..Len(printed) :
           (printed[m].kind = "molscribe"
            /\ Count(primary_returned["validation"], "True")
               + Count(primary_returned["validation"], "False") > 0) =>
               printed[m].percent =
                   RoundedPercent(Count(primary_returned["validation"], "True"),
                                  Count(primary_returned["validation"], "True")
                                  + Count(primary_returned["validation"], "False"))
    /\ \A m \in 1..Len(printed) :
           (printed[m].kind = "total"
            /\ Count(extraction_results["validation"], "True")
               + Count(extraction_results["validation"], "False") > 0) =>
               printed[m].percent =
                   RoundedPercent(Count(extraction_results["validation"], "True"),
                                  Count(extraction_results["validation"], "True")
                                  + Count(extraction_results["validation"], "False"))

C9_ComplementInput ==
    LET validation == primary_returned["validation"]
        false == {i \in 1..Len(validation) : validation[i] = "False"}
        nth(j) == CHOOSE i \in false : Cardinality({h \in false : h < i}) = j - 1
    IN  /\ ~AfterReconciliation => decimer_input = <<>>
        /\ AfterReconciliation =>
               /\ Len(decimer_input) <= 1
               /\ ComplementRan <=> (decimer_complement /\ false # {})
               /\ ComplementRan =>
                      decimer_input[1] = [j \in 1..Cardinality(false) |-> segments[nth(j)]]

\* C9 witness: three segments, one of them with primary validation None and
\* the other two with False; the complement recognizer was given those two.
C9_Witness ==
    /\ e_pc = "reconciled" /\ ComplementRan
    /\ Len(segments) = 3
    /\ Len(decimer_input[1]) = 2
    /\ \E i \in 1..3 : primary_returned["validation"][i] = "None"

\* ------------------------------------------------------------------------
\* Properties of get_information_from_descriptions (specification SpecDesc)

\* C6: get_information_from_descriptions returns for every list of
\* descriptions and every separator, and proposed_name and proposed_target
\* have one entry per description.
C6_NeverRaises ==
    d_pc # "call" =>
        /\ d_pc = "returned"
        /\ Len(information.proposed_name) = Len(descriptions)
        /\ Len(information.proposed_target) = Len(descriptions)

\* C10: in a returned result, a description with a line that contains the
\* separator gets the text before the first occurrence in the first such
\* line as name and the text after it as target; only a description without
\* such a line gets line 0 as name and line 1 as target ('' when missing).
C10_SeparatorLineWins ==
    d_pc = "returned" =>
        \A i \in 1..Len(descriptions) :
            LET text_lines == Split(descriptions[i], <<NL>>)
                with == {k \in 1..Len(text_lines) : Contains(text_lines[k], separator)}
                first == CHOOSE k \in with : \A h \in with : k <= h
                at == Find(text_lines[first], separator)
            IN  IF with # {}
                THEN /\ information.proposed_name[i] = SubSeq(text_lines[first], 1, at - 1)
                     /\ information.proposed_target[i] =
                            SubSeq(text_lines[first], at + Len(separator), Len(text_lines[first]))
                ELSE /\ information.proposed_name[i] = text_lines[1]
                     /\ information.proposed_target[i] =
                            IF Len(text_lines) >= 2 THEN text_lines[2] ELSE <<>>

\* ------------------------------------------------------------------------
\* Properties of segment_pdf (specification SpecSeg)

\* C8: segment_pdf returns for every list of documents, whichever of them
\* fail to decode, and returns the segments of the decoded ones in order.
C8_DecodeFailureNeverAborts ==
    LET RECURSIVE Decoded(_)
        Decoded(ps) ==
            IF ps = <<>> THEN <<>>
            ELSE (IF Head(ps).decodes
                  THEN SubSegmentList(Head(ps).filename, Head(ps).pages, 0) ELSE <<>>)
                 \o Decoded(Tail(ps))
    IN  s_pc # "call" =>
            /\ s_pc = "returned"
            /\ segment_list = Decoded(pdfs)

\* ------------------------------------------------------------------------
\* Properties of main and extract_bounds (specification SpecMain)

IsNumeral(s) == s # <<>> /\ \A i \in 1..Len(s) : s[i] \in Digits
SingleMonth(s) == IsNumeral(s) /\ DecValue(s) >= 1 /\ DecValue(s) <= 12
RangeMonth(s) ==
    \E k \in 1..Len(s) :
        /\ s[k] = "-"
        /\ IsNumeral(SubSeq(s, 1, k - 1)) /\ IsNumeral(SubSeq(s, k + 1, Len(s)))
        /\ 1 <= DecValue(SubSeq(s, 1, k - 1))
        /\ DecValue(SubSeq(s, 1, k - 1)) < DecValue(SubSeq(s, k + 1, Len(s)))
        /\ DecValue(SubSeq(s, k + 1, Len(s))) <= 12
MalformedMonth == args.month.given /\ ~SingleMonth(args.month.text) /\ ~RangeMonth(args.month.text)
MalformedYear ==
    \/ args.year.kind = "invalid"
    \/ args.year.kind = "int" /\ (args.year.value < 2020 \/ args.year.value > 9999)
ConfigurationError ==
    \/ m_error # ""
    \/ \E m \in 1..Len(messages) : messages[m] # "Please use only one option."
UrlGiven == args.url # None
\* main reached extract_bounds(args.month)
BoundsExtracted ==
    /\ m_pc # "call" /\ ~UrlGiven /\ args.year.kind = "int"
    /\ args.year.value >= 2020 /\ args.year.value <= 9999
    /\ args.month.given /\ args.month.text # <<>>
ExtractBoundsAsDocumented ==
    BoundsExtracted =>
        LET s == args.month.text
            k == CHOOSE k \in 1..Len(s) : s[k] = "-"
        IN  IF SingleMonth(s)
            THEN m_error = "" /\ lower_bound = DecValue(s) /\ upper_bound = DecValue(s)
            ELSE IF RangeMonth(s)
            THEN /\ m_error = ""
                 /\ lower_bound = DecValue(SubSeq(s, 1, k - 1))
                 /\ upper_bound = DecValue(SubSeq(s, k + 1, Len(s)))
            ELSE m_error = "ValueError" /\ fetched = <<>>

====
